---- MODULE Spec2Model ----
(***************************************************************************)
(* Face comparison pipeline: Face_Cropping.py (extraction scan),           *)
(* Face_Recognition_System.py (crop_faces_from_directory,                  *)
(* compare_all_pairs, main) and server_api.py (the /compare handler).      *)
(*                                                                         *)
(* Distances and thresholds are fixed-point numbers in units of 1e-5.      *)
(* An embedding is one integer coordinate in units of 0.5, so the L2 norm  *)
(* of a difference of embeddings is an absolute value.                     *)
(***************************************************************************)
EXTENDS Integers, Sequences, FiniteSets, TLC

\* ---------------------------------------------------------------- bounds
MaxFiles == 3
MaxFaces == 3
MaxUploads == 2
MaxRequests == 2
MaxClock == 1

\* Worker processes of the server; each runs one request at a time.
Workers == {"w1", "w2"}
\* The process that runs main() from the command line.
Cli == "w1"

Thresholds == {50000, 100000}

VARIABLES
    rawDir,        \* input directory: file name -> file content
    pairsDir,      \* output directory: crop number n (n.jpg) -> crop
    resultsFile,   \* the results file: NoFile or a report
    now,           \* time.time() * 1000 as read by the server
    nextReq,       \* number of /compare requests received so far
    \* --- one pipeline process (Face_Recognition_System.py) per worker
    pc,            \* position of main()
    run,           \* identity of the run (the request that launched it)
    threshold,     \* args.threshold
    todo,          \* Face_Cropping.py: files of the walk not yet visited
    scanned,       \* Face_Cropping.py: image files visited
    foreign,       \* Face_Cropping.py: it opened a file of another request
    face_counter,  \* Face_Cropping.py: face_counter
    cropExit,      \* returncode of Face_Cropping.py (-1: not returned)
    faces,         \* main: faces (saved_faces)
    results,       \* main: results
    stdout,        \* what main printed
    exitCode,      \* returncode of Face_Recognition_System.py (-1: none)
    compareCalled, \* whether main called compare_all_pairs
    \* --- one /compare handler per worker
    hpc,           \* position of compare_faces
    req,           \* the request being served
    saved,         \* number of uploads already written
    response,      \* the response returned
    touched,       \* what the handler did for the request
    overlapped     \* whether another request was in flight during this one

pvars == <<pc, run, threshold, todo, scanned, foreign, face_counter, cropExit,
           faces, results, stdout, exitCode, compareCalled>>
hvars == <<hpc, req, saved, response, touched, overlapped, now, nextReq>>
vars == <<rawDir, pairsDir, resultsFile, pvars, hvars>>

\* ------------------------------------------------------------ file system
Embs == {0, 1, 4}

\* An image with exactly one face of embedding e.
Face(e) == [img |-> TRUE, ok |-> TRUE, boxes |-> <<[area |-> 4, emb |-> e]>>]
\* An image with two faces; the second box is the larger one.
TwoFaces == [img |-> TRUE, ok |-> TRUE,
             boxes |-> <<[area |-> 1, emb |-> 0], [area |-> 9, emb |-> 4]>>]
NoFace == [img |-> TRUE, ok |-> TRUE, boxes |-> <<>>]
\* A file with an image extension that Image.open cannot decode.
Corrupt == [img |-> TRUE, ok |-> FALSE, boxes |-> <<>>]
\* A file without an image extension (skipped by the extension filter).
NotImage == [img |-> FALSE, ok |-> FALSE, boxes |-> <<>>]

FileContents == {Face(0), Face(1), TwoFaces, NoFace, Corrupt, NotImage}
UploadContents == {Face(1), NoFace}

\* A file of a directory: its content and the request that staged it.
File(c, r) == [content |-> c, owner |-> r]

EmptyDir == [x \in {} |-> 0]
Put(dir, k, v) == (k :> v) @@ dir

NoFile == [exists |-> FALSE]
\* A crop and a report left by an earlier run (run 0).
StaleCrop == [emb |-> 1]
StalePairs == (2 :> StaleCrop)
StaleReport == [exists |-> TRUE, header |-> "=== Face Recognition Results ===",
                lines |-> <<[a |-> 1, b |-> 2, dist |-> 5000, label |-> "SAME"]>>,
                total |-> 1, same |-> 1, different |-> 0, by |-> 0]

\* ------------------------------------------------- Face_Recognition_System
Abs(x) == IF x < 0 THEN -x ELSE x

\* compare_faces: the L2 distance of the embeddings of two crops.
compare_faces(dir, p1, p2) == Abs(dir[p1].emb - dir[p2].emb) * 50000

SameLe(d, thr) == d <= thr
\* line 152: same = d < threshold
Same(d, thr) == d < thr

RECURSIVE PairLoop(_, _, _, _, _)
PairLoop(f, thr, dir, i, j) ==
    IF i > Len(f) THEN <<>>
    ELSE IF j > Len(f) THEN PairLoop(f, thr, dir, i + 1, i + 2)
    ELSE LET d == compare_faces(dir, f[i], f[j])
         IN  <<[a |-> f[i], b |-> f[j], d |-> d, same |-> Same(d, thr)]>>
             \o PairLoop(f, thr, dir, i, j + 1)

RECURSIVE PairLoopAll(_, _, _, _, _)
PairLoopAll(f, thr, dir, i, j) ==
    IF i > Len(f) THEN <<>>
    ELSE IF j > Len(f) THEN PairLoopAll(f, thr, dir, i + 1, 1)
    ELSE IF i = j THEN PairLoopAll(f, thr, dir, i, j + 1)
    ELSE LET d == compare_faces(dir, f[i], f[j])
         IN  <<[a |-> f[i], b |-> f[j], d |-> d, same |-> Same(d, thr)]>>
             \o PairLoopAll(f, thr, dir, i, j + 1)

compare_all_pairs_ordered(face_images, thr, dir) ==
    IF Len(face_images) < 2 THEN <<>>
    ELSE PairLoopAll(face_images, thr, dir, 1, 1)

\* compare_all_pairs: the results in loop order.
compare_all_pairs(face_images, thr, dir) ==
    IF Len(face_images) < 2 THEN <<>>
    ELSE PairLoop(face_images, thr, dir, 1, 2)

\* f"{dist:.4f}": the distance rounded to units of 1e-4.
Fmt4(d) ==
    LET q == d \div 10
        r == d % 10
    IN  IF r > 5 \/ (r = 5 /\ q % 2 = 1) THEN q + 1 ELSE q

ReportLine(res) ==
    [a |-> res.a, b |-> res.b, dist |-> Fmt4(res.d),
     label |-> IF res.same THEN "SAME" ELSE "DIFFERENT"]

SameCountAll(rs) == Len(rs)

\* main, lines 197-211: same_count after the loop over results.
RECURSIVE SameCount(_)
SameCount(rs) ==
    IF rs = <<>> THEN 0
    ELSE (IF Head(rs).same THEN 1 ELSE 0) + SameCount(Tail(rs))

\* main, lines 200-216: the report written to the results file.
Report(rs, by) ==
    [exists |-> TRUE, header |-> "=== Face Recognition Results ===",
     lines |-> [k \in 1..Len(rs) |-> ReportLine(rs[k])],
     total |-> Len(rs), same |-> SameCount(rs),
     different |-> Len(rs) - SameCount(rs), by |-> by]

\* crop_faces_from_directory, lines 73-77: the output directory after the
\* crops of earlier runs are unlinked.
ClearedOutput(dir) == EmptyDir

\* crop_faces_from_directory, lines 102-113: 1.jpg, 2.jpg, ... up to the
\* first number that does not exist.
RECURSIVE SavedFrom(_, _)
SavedFrom(dir, i) ==
    IF i \in DOMAIN dir THEN <<i>> \o SavedFrom(dir, i + 1) ELSE <<>>
saved_faces(dir) == SavedFrom(dir, 1)

\* -------------------------------------------------------- Face_Cropping.py
\* os.walk: the names the directory holds when it is listed.
Listing(dir) == DOMAIN dir

\* line 41: the extension filter.
IsImageName(dir, f) == f \in DOMAIN dir /\ dir[f].content.img

\* lines 56-57: areas.index(max(areas)), the first box of maximal area.
LargestIdx(boxes) ==
    CHOOSE i \in 1..Len(boxes) :
        /\ \A j \in 1..Len(boxes) : boxes[j].area <= boxes[i].area
        /\ \A j \in 1..(i - 1) : boxes[j].area < boxes[i].area

\* lines 44-75 for one file f that passed the extension filter: the crop
\* written, or NoCrop when the file is skipped (it cannot be opened, it was
\* removed since the listing, no face, no box).
NoCrop == [found |-> FALSE]
CropSingleFace(dir, f) ==
    IF f \notin DOMAIN dir \/ ~dir[f].content.ok THEN NoCrop
    ELSE LET boxes == dir[f].content.boxes
         IN  IF Len(boxes) = 1
             THEN [found |-> TRUE, emb |-> boxes[1].emb]
             ELSE NoCrop
CropOf(dir, f) ==
    IF f \notin DOMAIN dir \/ ~dir[f].content.ok THEN NoCrop
    ELSE LET boxes == dir[f].content.boxes
         IN  IF Len(boxes) > 0
             THEN [found |-> TRUE, emb |-> boxes[LargestIdx(boxes)].emb]
             ELSE NoCrop

\* lines 66-68: the counter after a file was handled.
CounterAlways(n, crop) == n + 1
NextCounter(n, crop) == IF crop.found THEN n + 1 ELSE n

\* The visit of one file of the walk (lines 40-75).
ScanStep(p) ==
    /\ pc[p] = "scan"
    /\ \E f \in todo[p] :
        /\ todo' = [todo EXCEPT ![p] = @ \ {f}]
        /\ IF ~f.img
           THEN UNCHANGED <<scanned, foreign, pairsDir, face_counter>>
           ELSE LET crop == CropOf(rawDir, f.name)
                IN  /\ scanned' = [scanned EXCEPT ![p] = @ \cup {f.name}]
                    /\ foreign' = [foreign EXCEPT ![p] =
                          @ \/ (f.name \in DOMAIN rawDir
                                  /\ rawDir[f.name].owner # run[p])]
                    /\ pairsDir' =
                         IF crop.found
                         THEN Put(pairsDir, face_counter[p],
                                  [emb |-> crop.emb])
                         ELSE pairsDir
                    /\ face_counter' = [face_counter EXCEPT ![p] =
                                          NextCounter(@, crop)]
    /\ UNCHANGED <<rawDir, resultsFile, pc, run, threshold, cropExit, faces,
                   results, stdout, exitCode, compareCalled, hvars>>

\* ------------------------------------------------------------------ main
\* Each action below holds one access to the directories or the results
\* file, with the steps local to the process that precede or follow it.

\* lines 58-67: the model cannot be loaded, the process exits with 1.
MainInitFail(p) ==
    /\ pc[p] = "init"
    /\ pc' = [pc EXCEPT ![p] = "exited"]
    /\ exitCode' = [exitCode EXCEPT ![p] = 1]
    /\ UNCHANGED <<rawDir, pairsDir, resultsFile, run, threshold, todo,
                   scanned, foreign, face_counter, cropExit, faces, results, stdout,
                   compareCalled, hvars>>

\* main, lines 173-182, and crop_faces_from_directory, lines 73-77: the
\* models load and the output directory is cleared.
CropClear(p) ==
    /\ pc[p] = "init"
    /\ pairsDir' = ClearedOutput(pairsDir)
    /\ pc' = [pc EXCEPT ![p] = "crop_launch"]
    /\ UNCHANGED <<rawDir, resultsFile, run, threshold, todo, scanned, foreign,
                   face_counter, cropExit, faces, results, stdout, exitCode,
                   compareCalled, hvars>>

\* Face_Cropping.py starts (lines 1-39): the counter is 1 and the input
\* directory is listed.
CropStart(p) ==
    /\ pc[p] = "crop_launch"
    /\ face_counter' = [face_counter EXCEPT ![p] = 1]
    /\ todo' = [todo EXCEPT ![p] =
                  {[name |-> f, img |-> IsImageName(rawDir, f)] :
                     f \in Listing(rawDir)}]
    /\ scanned' = [scanned EXCEPT ![p] = {}]
    /\ foreign' = [foreign EXCEPT ![p] = FALSE]
    /\ pc' = [pc EXCEPT ![p] = "scan"]
    /\ UNCHANGED <<rawDir, pairsDir, resultsFile, run, threshold, cropExit,
                   faces, results, stdout, exitCode, compareCalled, hvars>>

\* crop_faces_from_directory, lines 96-113: what it returns.
ReturnedAlways(code, dir) == saved_faces(dir)
Returned(code, dir) == IF code # 0 THEN <<>> ELSE saved_faces(dir)

\* main, line 184: `if not faces`.
NoFaces(fs) == fs = <<>>

\* crop_faces_from_directory returns after the script ended with `code`
\* (lines 96-113), and main goes on (lines 184-190): without faces it prints
\* a message and returns, otherwise it is about to compare.
CropReturns(p, code) ==
    LET fs == Returned(code, pairsDir)
    IN  /\ cropExit' = [cropExit EXCEPT ![p] = code]
        /\ todo' = [todo EXCEPT ![p] = {}]
        /\ faces' = [faces EXCEPT ![p] = fs]
        /\ IF NoFaces(fs)
           THEN /\ stdout' = [stdout EXCEPT ![p] =
                                Append(@, "No faces detected.")]
                /\ exitCode' = [exitCode EXCEPT ![p] = 0]
                /\ pc' = [pc EXCEPT ![p] = "exited"]
           ELSE /\ stdout' = [stdout EXCEPT ![p] = Append(@, "Cropped faces.")]
                /\ pc' = [pc EXCEPT ![p] = "compare"]
                /\ UNCHANGED exitCode

\* Face_Cropping.py ends with a non-zero code: it raises before its loop
\* (lines 1-34, outside the per-file try), or the process is ended during
\* the walk by something the per-file `except Exception` does not catch.
CropCrash(p) ==
    /\ pc[p] \in {"crop_launch", "scan"}
    /\ CropReturns(p, 1)
    /\ UNCHANGED <<rawDir, pairsDir, resultsFile, run, threshold,
                   scanned, foreign, face_counter, results, compareCalled, hvars>>

\* The walk is over: the script ends with exit code 0 and the crops are
\* collected.
CropCollect(p) ==
    /\ pc[p] = "scan"
    /\ todo[p] = {}
    /\ CropReturns(p, 0)
    /\ UNCHANGED <<rawDir, pairsDir, resultsFile, run, threshold,
                   scanned, foreign, face_counter, results, compareCalled, hvars>>

\* load_image raises when a crop of the list is not in the directory.
Loadable(fs, dir) == Len(fs) < 2 \/ \A k \in 1..Len(fs) : fs[k] \in DOMAIN dir

\* main, lines 191-195: the call of compare_all_pairs; without results main
\* prints a message and returns.
Compare(p) ==
    /\ pc[p] = "compare"
    /\ compareCalled' = [compareCalled EXCEPT ![p] = TRUE]
    /\ IF Loadable(faces[p], pairsDir)
       THEN LET rs == compare_all_pairs(faces[p], threshold[p], pairsDir)
            IN  /\ results' = [results EXCEPT ![p] = rs]
                /\ IF rs = <<>>
                   THEN /\ stdout' = [stdout EXCEPT ![p] =
                                        Append(@, "No comparisons made.")]
                        /\ exitCode' = [exitCode EXCEPT ![p] = 0]
                        /\ pc' = [pc EXCEPT ![p] = "exited"]
                   ELSE /\ pc' = [pc EXCEPT ![p] = "report"]
                        /\ UNCHANGED <<stdout, exitCode>>
       ELSE /\ exitCode' = [exitCode EXCEPT ![p] = 1]
            /\ pc' = [pc EXCEPT ![p] = "exited"]
            /\ UNCHANGED <<results, stdout>>
    /\ UNCHANGED <<rawDir, pairsDir, resultsFile, run, threshold, todo,
                   scanned, foreign, face_counter, cropExit, faces, hvars>>

\* main, lines 197-218.
MainReport(p) ==
    /\ pc[p] = "report"
    /\ resultsFile' = Report(results[p], run[p])
    /\ stdout' = [stdout EXCEPT ![p] = Append(@, "Results saved.")]
    /\ exitCode' = [exitCode EXCEPT ![p] = 0]
    /\ pc' = [pc EXCEPT ![p] = "exited"]
    /\ UNCHANGED <<rawDir, pairsDir, run, threshold, todo, scanned, foreign,
                   face_counter, cropExit, faces, results, compareCalled,
                   hvars>>

Pipeline(p) ==
    \/ MainInitFail(p) \/ CropClear(p)
    \/ CropStart(p) \/ CropCrash(p)
    \/ ScanStep(p) \/ CropCollect(p)
    \/ Compare(p) \/ MainReport(p)

\* ----------------------------------------------- the pipeline run from a shell
\* No server: the handlers are idle and stay so.
HandlersOff ==
    /\ hpc = [w \in Workers |-> "idle"]
    /\ req = [w \in Workers |-> [id |-> 0, uploads |-> <<>>, threshold |-> 0]]
    /\ saved = [w \in Workers |-> 0]
    /\ response = [w \in Workers |-> [status |-> 0]]
    /\ touched = [w \in Workers |->
                    [cleared |-> FALSE, written |-> 0, launched |-> FALSE]]
    /\ overlapped = [w \in Workers |-> FALSE]
    /\ now = 0
    /\ nextReq = 0

ProcessOff(start) ==
    /\ pc = [w \in Workers |-> IF w = Cli THEN start ELSE "off"]
    /\ run = [w \in Workers |-> IF w = Cli THEN 1 ELSE 0]
    /\ todo = [w \in Workers |-> {}]
    /\ scanned = [w \in Workers |-> {}]
    /\ foreign = [w \in Workers |-> FALSE]
    /\ face_counter = [w \in Workers |-> 0]
    /\ cropExit = [w \in Workers |-> -1]
    /\ results = [w \in Workers |-> <<>>]
    /\ stdout = [w \in Workers |-> <<>>]
    /\ exitCode = [w \in Workers |-> -1]
    /\ compareCalled = [w \in Workers |-> FALSE]

\* python Face_Recognition_System.py on any input directory of at most
\* MaxFiles files, on a fresh output directory or on one left by a run.
InitCli ==
    /\ \E n \in 0..MaxFiles : \E cs \in [1..n -> FileContents] :
         rawDir = [f \in {<<0, i>> : i \in 1..n} |-> File(cs[f[2]], 1)]
    /\ \E stale \in BOOLEAN :
         /\ pairsDir = IF stale THEN StalePairs ELSE EmptyDir
         /\ resultsFile = IF stale THEN StaleReport ELSE NoFile
    /\ \E t \in Thresholds :
         threshold = [w \in Workers |-> IF w = Cli THEN t ELSE 0]
    /\ faces = [w \in Workers |-> <<>>]
    /\ ProcessOff("init")
    /\ HandlersOff

NextCli == Pipeline(Cli)

SpecCli == InitCli /\ [][NextCli]_vars

\* --------------------------------------- compare_all_pairs called on a list
\* Any list of at most MaxFaces paths of crops of the output directory.
InitCompare ==
    /\ rawDir = EmptyDir
    /\ \E es \in [1..MaxFaces -> Embs] :
         pairsDir = [i \in 1..MaxFaces |-> [emb |-> es[i]]]
    /\ resultsFile = NoFile
    /\ \E t \in Thresholds :
         threshold = [w \in Workers |-> IF w = Cli THEN t ELSE 0]
    /\ \E n \in 0..MaxFaces : \E fs \in [1..n -> 1..MaxFaces] :
         faces = [w \in Workers |-> IF w = Cli THEN fs ELSE <<>>]
    /\ ProcessOff("compare")
    /\ HandlersOff

NextCompare == Compare(Cli)

SpecCompare == InitCompare /\ [][NextCompare]_vars

\* ------------------------------------------------------------ server_api
\* clear_raw_images, lines 24-30: every file of the input directory is
\* unlinked.
KeptRaw(dir) == dir
ClearedRaw(dir) == EmptyDir

TooFewNone(images) == Len(images) < 1
\* compare_faces, line 39.
TooFew(images) == Len(images) < 2

\* line 48: f"{int(time.time() * 1000)}_{upload.filename}"
StagedName(t, upload) == <<t, upload.fname>>

\* The uploads of a request: at most MaxUploads files, the i-th named i.
Uploads ==
    UNION {[1..n -> UploadContents] : n \in 1..MaxUploads}
Payload(cs) == [i \in 1..Len(cs) |-> [fname |-> i, content |-> cs[i]]]

NoResponse == [status |-> 0]
Untouched == [cleared |-> FALSE, written |-> 0, launched |-> FALSE]
InFlight(w) == hpc[w] \in {"save", "wait"}

\* A request arrives at an idle worker. The workers are alike, so the
\* request is given to the first idle one.
Arrive(h, cs) ==
    /\ hpc[h] = "idle"
    /\ \A g \in Workers : hpc[g] = "idle" => g = h \/ h = "w1"
    /\ nextReq < MaxRequests
    /\ nextReq' = nextReq + 1
    /\ req' = [req EXCEPT ![h] = [id |-> nextReq + 1, uploads |-> Payload(cs),
                                  threshold |-> 100000]]

\* compare_faces, lines 39-43: fewer than two images.
CompareReject(h) ==
    \E cs \in Uploads :
        /\ Arrive(h, cs)
        /\ TooFew(cs)
        /\ response' = [response EXCEPT ![h] =
              [status |-> 400, success |-> FALSE, results |-> NoFile,
               error |-> "Please upload at least two images."]]
        /\ hpc' = [hpc EXCEPT ![h] = "responded"]
        /\ UNCHANGED <<rawDir, pairsDir, resultsFile, pvars, saved, touched,
                       overlapped, now>>

\* compare_faces, lines 39-45: the request passes the check and the input
\* directory is cleared.
CompareClear(h) ==
    \E cs \in Uploads :
        /\ Arrive(h, cs)
        /\ ~TooFew(cs)
        /\ rawDir' = ClearedRaw(rawDir)
        /\ touched' = [touched EXCEPT ![h].cleared = TRUE]
        /\ saved' = [saved EXCEPT ![h] = 0]
        /\ overlapped' = [w \in Workers |->
              IF w = h THEN \E g \in Workers \ {h} : InFlight(g)
              ELSE overlapped[w] \/ InFlight(w)]
        /\ hpc' = [hpc EXCEPT ![h] = "save"]
        /\ UNCHANGED <<pairsDir, resultsFile, pvars, response, now>>

\* compare_faces, lines 47-51: one upload is written under the name made
\* of the clock reading t, which is the last reading or a later one.
CompareSave(h) ==
    /\ hpc[h] = "save"
    /\ saved[h] < Len(req[h].uploads)
    /\ \E t \in now..MaxClock :
        /\ t <= now + 1
        /\ now' = t
        /\ LET up == req[h].uploads[saved[h] + 1]
           IN  rawDir' = Put(rawDir, StagedName(t, up),
                             File(up.content, req[h].id))
    /\ saved' = [saved EXCEPT ![h] = @ + 1]
    /\ touched' = [touched EXCEPT ![h].written = @ + 1]
    /\ UNCHANGED <<pairsDir, resultsFile, pvars, hpc, req, response,
                   overlapped, nextReq>>

\* compare_faces, lines 53-69: subprocess.run starts the pipeline.
CompareLaunch(h) ==
    /\ hpc[h] = "save"
    /\ saved[h] = Len(req[h].uploads)
    /\ hpc' = [hpc EXCEPT ![h] = "wait"]
    /\ touched' = [touched EXCEPT ![h].launched = TRUE]
    /\ pc' = [pc EXCEPT ![h] = "init"]
    /\ run' = [run EXCEPT ![h] = req[h].id]
    /\ threshold' = [threshold EXCEPT ![h] = req[h].threshold]
    /\ todo' = [todo EXCEPT ![h] = {}]
    /\ scanned' = [scanned EXCEPT ![h] = {}]
    /\ foreign' = [foreign EXCEPT ![h] = FALSE]
    /\ face_counter' = [face_counter EXCEPT ![h] = 0]
    /\ cropExit' = [cropExit EXCEPT ![h] = -1]
    /\ faces' = [faces EXCEPT ![h] = <<>>]
    /\ results' = [results EXCEPT ![h] = <<>>]
    /\ stdout' = [stdout EXCEPT ![h] = <<>>]
    /\ exitCode' = [exitCode EXCEPT ![h] = -1]
    /\ compareCalled' = [compareCalled EXCEPT ![h] = FALSE]
    /\ UNCHANGED <<rawDir, pairsDir, resultsFile, req, saved, response,
                   overlapped, now, nextReq>>

\* compare_faces, lines 71-93: the answer once the child has exited.
Answer(code, file) ==
    IF code # 0
    THEN [status |-> 500, success |-> FALSE, results |-> NoFile,
          error |-> "stderr"]
    ELSE IF ~file.exists
    THEN [status |-> 500, success |-> FALSE, results |-> NoFile,
          error |-> "Results file not found."]
    ELSE [status |-> 200, success |-> TRUE, results |-> file, error |-> ""]

CompareRespond(h) ==
    /\ hpc[h] = "wait"
    /\ pc[h] = "exited"
    /\ response' = [response EXCEPT ![h] = Answer(exitCode[h], resultsFile)]
    /\ hpc' = [hpc EXCEPT ![h] = "responded"]
    /\ UNCHANGED <<rawDir, pairsDir, resultsFile, pvars, req, saved, touched,
                   overlapped, now, nextReq>>

\* The response is delivered; the worker is idle again.
Deliver(h) ==
    /\ hpc[h] = "responded"
    /\ hpc' = [hpc EXCEPT ![h] = "idle"]
    /\ req' = [req EXCEPT ![h] = [id |-> 0, uploads |-> <<>>, threshold |-> 0]]
    /\ saved' = [saved EXCEPT ![h] = 0]
    /\ response' = [response EXCEPT ![h] = NoResponse]
    /\ touched' = [touched EXCEPT ![h] = Untouched]
    /\ overlapped' = [overlapped EXCEPT ![h] = FALSE]
    /\ pc' = [pc EXCEPT ![h] = "off"]
    /\ run' = [run EXCEPT ![h] = 0]
    /\ threshold' = [threshold EXCEPT ![h] = 0]
    /\ todo' = [todo EXCEPT ![h] = {}]
    /\ scanned' = [scanned EXCEPT ![h] = {}]
    /\ foreign' = [foreign EXCEPT ![h] = FALSE]
    /\ face_counter' = [face_counter EXCEPT ![h] = 0]
    /\ cropExit' = [cropExit EXCEPT ![h] = -1]
    /\ faces' = [faces EXCEPT ![h] = <<>>]
    /\ results' = [results EXCEPT ![h] = <<>>]
    /\ stdout' = [stdout EXCEPT ![h] = <<>>]
    /\ exitCode' = [exitCode EXCEPT ![h] = -1]
    /\ compareCalled' = [compareCalled EXCEPT ![h] = FALSE]
    /\ UNCHANGED <<rawDir, pairsDir, resultsFile, now, nextReq>>

Handler(h) ==
    \/ CompareReject(h) \/ CompareClear(h) \/ CompareSave(h)
    \/ CompareLaunch(h) \/ CompareRespond(h) \/ Deliver(h)

\* The server after start-up: empty directories, no results file.
Init ==
    /\ rawDir = EmptyDir
    /\ pairsDir = EmptyDir
    /\ resultsFile = NoFile
    /\ pc = [w \in Workers |-> "off"]
    /\ run = [w \in Workers |-> 0]
    /\ threshold = [w \in Workers |-> 0]
    /\ todo = [w \in Workers |-> {}]
    /\ scanned = [w \in Workers |-> {}]
    /\ foreign = [w \in Workers |-> FALSE]
    /\ face_counter = [w \in Workers |-> 0]
    /\ cropExit = [w \in Workers |-> -1]
    /\ faces = [w \in Workers |-> <<>>]
    /\ results = [w \in Workers |-> <<>>]
    /\ stdout = [w \in Workers |-> <<>>]
    /\ exitCode = [w \in Workers |-> -1]
    /\ compareCalled = [w \in Workers |-> FALSE]
    /\ HandlersOff

Next == \E h \in Workers : Handler(h) \/ Pipeline(h)

Spec == Init /\ [][Next]_vars

\* ------------------------------------ requests with free upload file names
\* upload.filename is chosen by the client: two uploads of a request may
\* carry the same name.
Names == {1, 2}
NamedUploads ==
    UNION {[1..n -> [fname : Names, content : UploadContents]] :
             n \in 1..MaxUploads}

\* A request arrives while no other is being served (the client sends its
\* requests one after the other).
ArriveNamed(h, ups) ==
    /\ \A g \in Workers : hpc[g] = "idle"
    /\ h = "w1"
    /\ nextReq < MaxRequests
    /\ nextReq' = nextReq + 1
    /\ req' = [req EXCEPT ![h] = [id |-> nextReq + 1, uploads |-> ups,
                                  threshold |-> 100000]]

\* compare_faces, lines 39-43.
StageReject(h) ==
    \E ups \in NamedUploads :
        /\ ArriveNamed(h, ups)
        /\ TooFew(ups)
        /\ response' = [response EXCEPT ![h] =
              [status |-> 400, success |-> FALSE, results |-> NoFile,
               error |-> "Please upload at least two images."]]
        /\ hpc' = [hpc EXCEPT ![h] = "responded"]
        /\ UNCHANGED <<rawDir, pairsDir, resultsFile, pvars, saved, touched,
                       overlapped, now>>

\* compare_faces, lines 39-45.
StageClear(h) ==
    \E ups \in NamedUploads :
        /\ ArriveNamed(h, ups)
        /\ ~TooFew(ups)
        /\ rawDir' = ClearedRaw(rawDir)
        /\ touched' = [touched EXCEPT ![h].cleared = TRUE]
        /\ saved' = [saved EXCEPT ![h] = 0]
        /\ UNCHANGED overlapped
        /\ hpc' = [hpc EXCEPT ![h] = "save"]
        /\ UNCHANGED <<pairsDir, resultsFile, pvars, response, now>>

HandlerNamed(h) ==
    \/ StageReject(h) \/ StageClear(h) \/ CompareSave(h)
    \/ CompareLaunch(h) \/ CompareRespond(h) \/ Deliver(h)

NextStage == \E h \in Workers : HandlerNamed(h) \/ Pipeline(h)

SpecStage == Init /\ [][NextStage]_vars

\* ------------------------------------------------------------- properties
ImageNames(dir) == {f \in DOMAIN dir : dir[f].content.img}
FaceNames(dir) ==
    {f \in DOMAIN dir : /\ dir[f].content.img
                        /\ dir[f].content.ok
                        /\ Len(dir[f].content.boxes) >= 1}
\* The place of the pair (i, j), i < j, among the pairs of n items listed
\* with i ascending, then j ascending.
Rank(i, j, n) == (i - 1) * n - (i * (i - 1)) \div 2 + (j - i)
ExtractionDone(p) == cropExit[p] = 0
WroteReport(p) == resultsFile.exists /\ resultsFile.by = run[p]

\* C1: for a list of n paths compare_all_pairs returns n*(n-1)/2 results
\* (none when n < 2), the result at the place of the pair (i, j), i < j, in
\* the order i ascending then j ascending being the one of paths i and j.
C1_AllPairsOnce ==
    compareCalled[Cli] =>
        LET f == faces[Cli]
            n == Len(f)
            r == results[Cli]
        IN  /\ Len(r) = (n * (n - 1)) \div 2
            /\ n < 2 => r = <<>>
            /\ \A i \in 1..n : \A j \in 1..n :
                 i < j => /\ r[Rank(i, j, n)].a = f[i]
                          /\ r[Rank(i, j, n)].b = f[j]

C1_Witness ==
    /\ compareCalled[Cli]
    /\ faces[Cli] = <<2, 1, 2>>
    /\ Len(results[Cli]) = 3
    /\ results[Cli][3].a = 1 /\ results[Cli][3].b = 2

\* C2: the same-person flag of every pair result is true exactly when its
\* distance is strictly below the threshold, and the report line of the pair
\* says SAME when the flag is true and DIFFERENT otherwise.
C2_StrictThreshold ==
    /\ \A k \in 1..Len(results[Cli]) :
         results[Cli][k].same <=> (results[Cli][k].d < threshold[Cli])
    /\ WroteReport(Cli) =>
         /\ Len(resultsFile.lines) = Len(results[Cli])
         /\ \A k \in 1..Len(results[Cli]) :
              resultsFile.lines[k].label =
                 IF results[Cli][k].d < threshold[Cli]
                 THEN "SAME" ELSE "DIFFERENT"

C2_Witness ==
    /\ WroteReport(Cli)
    /\ \E k \in 1..Len(results[Cli]) :
         /\ results[Cli][k].d = threshold[Cli]
         /\ resultsFile.lines[k].label = "DIFFERENT"
    /\ \E k \in 1..Len(results[Cli]) : resultsFile.lines[k].label = "SAME"

\* C6: during the scan the crops are 1.jpg .. (n-1).jpg for the counter n
\* (so the counter moves only with a written crop and a skipped file takes no
\* number); after a scan that ended normally they are 1.jpg .. k.jpg with no
\* gap and crop_faces_from_directory returns these k paths in ascending order.
C6_ContiguousNumbering ==
    /\ pc[Cli] = "scan" => DOMAIN pairsDir = 1..(face_counter[Cli] - 1)
    /\ ExtractionDone(Cli) =>
         /\ DOMAIN pairsDir = 1..(face_counter[Cli] - 1)
         /\ faces[Cli] = [i \in 1..Cardinality(DOMAIN pairsDir) |-> i]

C6_Witness ==
    /\ pc[Cli] = "compare"
    /\ cropExit[Cli] = 0
    /\ resultsFile = StaleReport
    /\ faces[Cli] = <<1, 2>>
    /\ Cardinality(DOMAIN rawDir) = 3
    /\ \E f \in DOMAIN rawDir : rawDir[f].content \in {NoFace, Corrupt}

\* C7: when the scan has ended normally, every image file of the input
\* directory was visited, whatever happened on the other files and in
\* whatever order, and there are as many crops as images with a face.
C7_OneCropPerFaceImage ==
    ExtractionDone(Cli) =>
        /\ scanned[Cli] = ImageNames(rawDir)
        /\ Cardinality(DOMAIN pairsDir) = Cardinality(FaceNames(rawDir))

C7_Witness ==
    /\ ExtractionDone(Cli)
    /\ {rawDir[f].content : f \in DOMAIN rawDir} = {Corrupt, NoFace, TwoFaces}
    /\ rawDir[<<0, 3>>].content = TwoFaces
    /\ DOMAIN pairsDir = {1}
    /\ pairsDir[1].emb = 4

\* C8: a report the pipeline wrote has the header, one line per pair result
\* in order, and a summary with total = number of lines, same = number of
\* SAME lines, different = number of DIFFERENT lines; for three faces at
\* distances 0.5, 1.5, 2.0 and threshold 1.0 it has 3 lines, SAME then
\* DIFFERENT twice, 'Same person: 1' and 'Different persons: 2'.
C8_ReportSummary ==
    WroteReport(Cli) =>
        LET L == resultsFile.lines
            r == results[Cli]
            sameLines == {k \in 1..Len(L) : L[k].label = "SAME"}
            diffLines == {k \in 1..Len(L) : L[k].label = "DIFFERENT"}
        IN  /\ resultsFile.header = "=== Face Recognition Results ==="
            /\ Len(L) = Len(r)
            /\ \A k \in 1..Len(r) :
                 L[k].a = r[k].a /\ L[k].b = r[k].b
            /\ resultsFile.total = Len(L)
            /\ resultsFile.same = Cardinality(sameLines)
            /\ resultsFile.different = Cardinality(diffLines)
            /\ resultsFile.same + resultsFile.different = resultsFile.total
            /\ ( /\ Len(faces[Cli]) = 3
                 /\ threshold[Cli] = 100000
                 /\ [k \in 1..Len(r) |-> r[k].d] = <<50000, 150000, 200000>> )
               => /\ Len(L) = 3
                  /\ [k \in 1..3 |-> L[k].label] =
                        <<"SAME", "DIFFERENT", "DIFFERENT">>
                  /\ resultsFile.same = 1
                  /\ resultsFile.different = 2

C8_Witness ==
    /\ WroteReport(Cli)
    /\ threshold[Cli] = 100000
    /\ Len(faces[Cli]) = 3
    /\ [k \in 1..Len(results[Cli]) |-> results[Cli][k].d] =
          <<50000, 150000, 200000>>
    /\ resultsFile.same = 1

\* C9: main calls compare_all_pairs only after the extraction script exited
\* with code 0 and at least one crop was found; when the script exits with
\* another code or no crop is found, compare_all_pairs is not called, the
\* results file is not written, 'No faces detected.' is printed and main
\* returns normally.
C9_ExtractionGatesComparison ==
    /\ (pc[Cli] = "compare" \/ compareCalled[Cli]) =>
         cropExit[Cli] = 0 /\ Len(faces[Cli]) >= 1
    /\ ( /\ pc[Cli] = "exited"
         /\ cropExit[Cli] >= 0
         /\ (cropExit[Cli] # 0 \/ faces[Cli] = <<>>) )
       => /\ ~compareCalled[Cli]
          /\ ~WroteReport(Cli)
          /\ stdout[Cli] = <<"No faces detected.">>
          /\ exitCode[Cli] = 0

C9_Witness ==
    /\ pc[Cli] = "exited"
    /\ cropExit[Cli] = 1
    /\ DOMAIN pairsDir = {1, 2}
    /\ exitCode[Cli] = 0
    /\ resultsFile = StaleReport

\* Request h was served with no other request in flight and its pipeline
\* and extraction processes both ended with exit code 0.
RanAloneAndClean(h) ==
    /\ hpc[h] = "responded"
    /\ ~overlapped[h]
    /\ exitCode[h] = 0
    /\ cropExit[h] = 0

\* C3: a /compare request answered with success returns the report written
\* by the pipeline run that the request launched, never one left by an
\* earlier request. Stated for the requests that follow earlier ones without
\* overlapping any, and whose processes all ended normally.
C3_ReportIsOfThisRun ==
    \A h \in Workers :
        (RanAloneAndClean(h) /\ response[h].success) =>
            response[h].results.by = req[h].id

\* C4: a request during which a child process (the pipeline script or the
\* extraction script) exited with a non-zero code is answered with HTTP 500
\* and success false. Stated for the requests served with no other request
\* in flight.
C4_ChildFailureIs500 ==
    \A h \in Workers :
        ( /\ hpc[h] = "responded"
          /\ ~overlapped[h]
          /\ touched[h].launched
          /\ (exitCode[h] > 0 \/ cropExit[h] > 0) )
        => response[h].status = 500 /\ ~response[h].success

\* A request of fewer than two images that a worker holds has been answered
\* with 400, has touched nothing and has no pipeline.
C5_TooFewState ==
    \A h \in Workers :
        (hpc[h] # "idle" /\ Len(req[h].uploads) < 2) =>
            /\ hpc[h] = "responded"
            /\ response[h].status = 400
            /\ ~response[h].success
            /\ touched[h] = Untouched
            /\ pc[h] = "off"
\* The step that takes a request of fewer than two images leaves the
\* directories, the results file and the pipelines as they were.
C5_TooFewStep ==
    \A h \in Workers :
        (hpc[h] = "idle" /\ hpc'[h] # "idle" /\ Len(req'[h].uploads) < 2) =>
            /\ rawDir' = rawDir
            /\ pairsDir' = pairsDir
            /\ resultsFile' = resultsFile
            /\ pc' = pc

C10_ForeignOnlyWhenOverlapping ==
    \A h \in Workers : foreign[h] => overlapped[h]

C10_Witness ==
    \E h \in Workers :
        /\ hpc[h] = "responded"
        /\ response[h].success
        /\ response[h].results.by = req[h].id
        /\ foreign[h]

\* C11: within one request every upload is written to a file of its own,
\* whatever the upload names and the clock readings: while the request is
\* staged and afterwards the input directory holds one file per upload
\* written so far, so k files once the k uploads are staged.
C11_OneFilePerUpload ==
    \A h \in Workers :
        (hpc[h] \in {"save", "wait"} /\ ~overlapped[h]) =>
            Cardinality(DOMAIN rawDir) = saved[h]

====
